---- MODULE Spec2Model ----
(***************************************************************************)
(* Model of the 42zk circuits: the Mixer and Twin circuits over bellman's  *)
(* Groth16 pipeline (trust_setup, generate_proof, verify) and the          *)
(* recursively composed ledger transition circuit (ReachCircuit).          *)
(*                                                                         *)
(* Integers wider than TLC's are scaled: a u128 is U128Bytes bytes wide,   *)
(* a SHA-256 digest DigestBytes bytes wide.  The SHA-256 gadget of the     *)
(* Mixer and Twin circuits is an injective constructor over its input      *)
(* bits, so two digests are equal exactly when their preimages are.        *)
(***************************************************************************)
EXTENDS Integers, Sequences, FiniteSets, TLC

\* ------------------------------------------------------------------ widths
BitsPerByte == 8
\* scaled from 16 (u128::to_be_bytes)
U128Bytes == 2
\* scaled from 32 (SHA-256 output)
DigestBytes == 1
\* the largest number of amounts (inputs plus outputs) of a witness or a shape
MaxAmounts == 3

U128Bits == U128Bytes * BitsPerByte
U128Modulus == 2 ^ U128Bits
MaxU128 == U128Modulus - 1
DigestBits == DigestBytes * BitsPerByte
\* Fr::CAPACITY of Bls12 is 254, two bits short of one digest
Capacity == DigestBits - 2

\* ------------------------------------------------------------------ values
\* A Boolean wire (or an off-circuit bit) is [d, i]: a constant bit has
\* d = <<>> and i in {0, 1}; bit i of the digest of preimage d has i in
\* 1..DigestBits; i = -1 stands for a whole digest inside a preimage.
ConstBit(b) == [d |-> <<>>, i |-> IF b THEN 1 ELSE 0]

\* A u8 is the tuple of its bits, most significant first.
U8(n) == [j \in 1..BitsPerByte |-> ConstBit((n \div 2 ^ (BitsPerByte - j)) % 2 = 1)]

\* (byte >> i) & 1u8 == 1u8
ShrAnd1(byte, i) == byte[BitsPerByte - i]

RECURSIVE Flatten(_)
Flatten(ss) == IF ss = <<>> THEN <<>> ELSE Head(ss) \o Flatten(Tail(ss))

Reverse(s) == [k \in 1..Len(s) |-> s[Len(s) + 1 - k]]

to_be_bytes(num) ==
  [k \in 1..U128Bytes |-> U8((num \div 2 ^ (BitsPerByte * (U128Bytes - k))) % 2 ^ BitsPerByte)]

convert_to_bits_norev(num) ==
  Flatten([k \in 1..U128Bytes |->
             [i \in 1..BitsPerByte |-> ShrAnd1(to_be_bytes(num)[k], i - 1)]])

convert_to_bits(num) ==
  Flatten([k \in 1..U128Bytes |->
             Reverse([i \in 1..BitsPerByte |-> ShrAnd1(to_be_bytes(num)[k], i - 1)])])

\* ------------------------------------------------------------------ SHA-256
RECURSIVE Compress(_)
Compress(bits) ==
  IF bits = <<>> THEN <<>>
  ELSE LET h == bits[1] IN
       IF /\ h.i = 1
          /\ h.d # <<>>
          /\ Len(bits) >= DigestBits
          /\ \A k \in 1..DigestBits : bits[k] = [d |-> h.d, i |-> k]
       THEN <<[d |-> h.d, i |-> -1]>> \o Compress(SubSeq(bits, DigestBits + 1, Len(bits)))
       ELSE <<h>> \o Compress(Tail(bits))

\* bellman::gadgets::sha256::sha256 over Boolean wires
sha256(bits) ==
  LET d == Compress(bits)
  IN  [i \in 1..DigestBits |-> [d |-> d, i |-> i]]

\* sha2::Sha256::digest over bytes: the same function, bytes read and written
\* most significant bit first
Sha256_digest(bytes) ==
  LET out == sha256(Flatten(bytes))
  IN  [k \in 1..DigestBytes |-> SubSeq(out, BitsPerByte * (k - 1) + 1, BitsPerByte * k)]

\* ------------------------------------------------------------------ multipack
RECURSIVE Chunks(_, _)
Chunks(s, n) ==
  IF s = <<>> THEN <<>>
  ELSE IF Len(s) <= n THEN <<s>>
  ELSE <<SubSeq(s, 1, n)>> \o Chunks(SubSeq(s, n + 1, Len(s)), n)

\* A field element packed from at most Capacity bits is represented by those
\* bits, least significant first: sum(bit_i * 2^i) < 2^Capacity < r.
pack_into_inputs(bits) == Chunks(bits, Capacity)
compute_multipacking(bits) == Chunks(bits, Capacity)

bytes_to_bits(bytes) ==
  Flatten([k \in 1..Len(bytes) |->
             Reverse([i \in 1..BitsPerByte |-> ShrAnd1(bytes[k], i - 1)])])

\* ------------------------------------------------------------------ Mixer
Amount(value, nonce) == [value |-> value, nonce |-> nonce]

Amount_hash(a) == sha256(convert_to_bits(a.value) \o convert_to_bits(a.nonce))

RECURSIVE FoldNoAcc(_, _)
FoldNoAcc(acc, hashes) ==
  IF hashes = <<>> THEN acc
  ELSE FoldNoAcc(sha256(Head(hashes)), Tail(hashes))

RECURSIVE try_fold(_, _)
try_fold(acc, hashes) ==
  IF hashes = <<>> THEN acc
  ELSE try_fold(sha256(acc \o Head(hashes)), Tail(hashes))

recursive_hash_noacc(amounts) ==
  FoldNoAcc(<<>>, [k \in 1..Len(amounts) |-> Amount_hash(amounts[k])])

recursive_hash(amounts) ==
  try_fold(<<>>, [k \in 1..Len(amounts) |-> Amount_hash(amounts[k])])

RECURSIVE TrueSum(_)
TrueSum(amounts) ==
  IF amounts = <<>> THEN 0 ELSE Head(amounts).value + TrueSum(Tail(amounts))

\* Iterator::sum over u128: a debug build panics on overflow, a release build
\* wraps.
SumU128(amounts, bld) ==
  [panic |-> bld = "debug" /\ TrueSum(amounts) > MaxU128,
   val   |-> TrueSum(amounts) % U128Modulus]

\* What the circuit emits: one commitment per amount, one SHA-256 per fold
\* step over the combined bits, one packing of the digest.
MixerShape(n, digest) ==
  [commits |-> n,
   folds   |-> [k \in 1..n |-> IF k = 1 THEN DigestBits ELSE 2 * DigestBits],
   packed  |-> Len(digest)]

\* Mixer::synthesize chaining the outputs before the inputs
Mixer_synthesize_outfirst(inputs, outputs, bld) ==
  LET inputs_sum  == SumU128(inputs, bld)
      outputs_sum == SumU128(outputs, bld)
      amounts     == outputs \o inputs
      digest      == recursive_hash(amounts)
  IN  IF inputs_sum.panic \/ outputs_sum.panic
      THEN [status |-> "panic: overflow", digest |-> <<>>, public |-> <<>>,
            shape |-> MixerShape(0, <<>>)]
      ELSE IF inputs_sum.val < outputs_sum.val
      THEN [status |-> "Unsatisfiable", digest |-> <<>>, public |-> <<>>,
            shape |-> MixerShape(0, <<>>)]
      ELSE [status |-> "Ok", digest |-> digest, public |-> pack_into_inputs(digest),
            shape |-> MixerShape(Len(amounts), digest)]

Mixer_synthesize(inputs, outputs, bld) ==
  LET inputs_sum  == SumU128(inputs, bld)
      outputs_sum == SumU128(outputs, bld)
      amounts     == inputs \o outputs
      digest      == recursive_hash(amounts)
  IN  IF inputs_sum.panic \/ outputs_sum.panic
      THEN [status |-> "panic: overflow", digest |-> <<>>, public |-> <<>>,
            shape |-> MixerShape(0, <<>>)]
      ELSE IF inputs_sum.val < outputs_sum.val
      THEN [status |-> "Unsatisfiable", digest |-> <<>>, public |-> <<>>,
            shape |-> MixerShape(0, <<>>)]
      ELSE [status |-> "Ok", digest |-> digest, public |-> pack_into_inputs(digest),
            shape |-> MixerShape(Len(amounts), digest)]

Replicate(n, x) == [k \in 1..n |-> x]

NoParams == [status |-> "none", shape |-> MixerShape(0, <<>>), ninputs |-> 0, sizes |-> <<0, 0>>]

\* generate_random_parameters(c).expect("setup")
trust_setup(inputs_size, outputs_size, bld) ==
  LET c == Mixer_synthesize(Replicate(inputs_size, Amount(254, 1)),
                            Replicate(outputs_size, Amount(1, 1)), bld)
  IN  IF c.status = "Ok"
      THEN [status |-> "ok", shape |-> c.shape, ninputs |-> Len(c.public),
            sizes |-> <<inputs_size, outputs_size>>]
      ELSE [status |-> "panic: setup", shape |-> MixerShape(0, <<>>), ninputs |-> 0,
            sizes |-> <<inputs_size, outputs_size>>]

NoProof == [status |-> "none", stmt |-> <<>>, shape |-> MixerShape(0, <<>>), digest |-> <<>>]

\* create_random_proof(c, params).expect("create proof"); `fits` is whether the
\* prover's output is a proof when the circuit's shape is not the parameters'
\* (bellman leaves that case open: it may panic or return a proof that does
\* not verify).
generate_proof(w, p, bld, fits) ==
  LET c == Mixer_synthesize(w.inputs, w.outputs, bld)
  IN  IF c.status = "panic: overflow"
      THEN [status |-> "panic: overflow", stmt |-> <<>>, shape |-> c.shape, digest |-> <<>>]
      ELSE IF c.status # "Ok"
      THEN [status |-> "panic: create proof: Unsatisfiable", stmt |-> <<>>,
            shape |-> c.shape, digest |-> <<>>]
      ELSE IF c.shape # p.shape /\ ~fits
      THEN [status |-> "panic: create proof", stmt |-> <<>>, shape |-> c.shape,
            digest |-> <<>>]
      ELSE [status |-> "ok", stmt |-> c.public, shape |-> c.shape, digest |-> c.digest]

\* Serialized keys and proofs: bytes that decode to the value, or that do not.
Bytes(v) == [decodes |-> TRUE, val |-> v]
Garbage(v) == [decodes |-> FALSE, val |-> v]

\* groth16::verify_proof: Err(MalformedVerifyingKey) when the number of public
\* inputs is not the key's, else whether the proof is one for this key and
\* these inputs.
verify_proof(vk, prf, inputs) ==
  IF Len(inputs) # vk.ninputs THEN "Err"
  ELSE IF prf.status = "ok" /\ prf.shape = vk.shape /\ prf.stmt = inputs
  THEN "true" ELSE "false"

verify(vk_bytes, proof_bytes, recursive_hash_bytes) ==
  IF ~vk_bytes.decodes THEN "panic: read verifying key"
  ELSE LET hash_bits == bytes_to_bits(recursive_hash_bytes)
           inputs    == compute_multipacking(hash_bits)
       IN  IF ~proof_bytes.decodes THEN "panic: read proof"
           ELSE LET r == verify_proof(vk_bytes.val, proof_bytes.val, inputs)
                IN  IF r = "Err" THEN "panic: verify proof" ELSE r

\* tests::combine and the test's fold over Sha256::digest
combine(amount, nonce) == to_be_bytes(amount) \o to_be_bytes(nonce)

RECURSIVE fold_digest(_, _)
fold_digest(acc, hashes) ==
  IF hashes = <<>> THEN acc
  ELSE fold_digest(Sha256_digest(acc \o Head(hashes)), Tail(hashes))

reference_hash(amounts) ==
  fold_digest(<<>>, [k \in 1..Len(amounts) |->
                       Sha256_digest(combine(amounts[k].value, amounts[k].nonce))])

\* ------------------------------------------------------------------ ledger widths
NumAccounts == 8
\* account indices at or above this are a Violation
IdxLimit == 8
\* scaled from 128 (u128 balances and amounts)
BalanceBits == 4
\* scaled from 16 (u16 account indices)
IdxBits == 4
\* 64 bits in the code: half a balance
HeightBits == BalanceBits \div 2
\* 256 bits in the code: two balances
HashBits == 2 * BalanceBits
\* the field of the halo curves holds 254 bits, two short of a digest
FieldBits == HashBits - 2
FieldModulus == 2 ^ FieldBits + 3

TxBits == 2 * IdxBits + BalanceBits
BalancesBits == NumAccounts * BalanceBits

\* ------------------------------------------------------------------ field encoding
FMod(x) == ((x % FieldModulus) + FieldModulus) % FieldModulus

LEBits(n, w) == [k \in 1..w |-> (n \div 2 ^ (k - 1)) % 2 = 1]

RECURSIVE LEInt(_)
LEInt(bits) ==
  IF bits = <<>> THEN 0
  ELSE (IF Head(bits) THEN 1 ELSE 0) + 2 * LEInt(Tail(bits))

F_from(b) == IF b THEN 1 ELSE 0

RECURSIVE LcSum(_, _)
LcSum(bits, coeff) ==
  IF bits = <<>> THEN 0
  ELSE FMod(F_from(Head(bits)) * coeff + LcSum(Tail(bits), FMod(coeff + coeff)))

lc_from_bits(bits) == LcSum(bits, 1)

RECURSIVE FoldNum(_, _)
FoldNum(acc, bits) ==
  IF bits = <<>> THEN acc
  ELSE FoldNum(FMod(acc + acc + F_from(Head(bits))), Tail(bits))

\* The witnessed number and whether the one constraint tying it to its bits
\* is satisfied.
bits_to_num(bits) ==
  LET value == FoldNum(0, Reverse(bits))
  IN  [value |-> value, satisfied |-> FMod(lc_from_bits(bits) - value) = 0]

\* Whether the one zero-constraint a_lc - b_lc is satisfied.
enforce_equality(a, b) == FMod(LcSum(a, 1) - LcSum(b, 1)) = 0

\* halo::sha256::sha256 over constant bits: a fixed function onto HashBits
\* bits.
RECURSIVE Mix(_, _)
Mix(h, bits) ==
  IF bits = <<>> THEN h
  ELSE Mix((5 * h + F_from(Head(bits)) + 1) % 2 ^ HashBits, Tail(bits))

halo_sha256(bits) == LEBits(Mix(7, bits), HashBits)

\* ------------------------------------------------------------------ ChainState
NoTx == [from |-> -1, to |-> -1, amount |-> 0]

Transaction(from, to, amount) == [from |-> from, to |-> to, amount |-> amount]

Transaction_to_bits(tx) ==
  LEBits(tx.from, IdxBits) \o LEBits(tx.to, IdxBits) \o LEBits(tx.amount, BalanceBits)

ChainState(height, root_hash, balances, tx) ==
  [height |-> height, root_hash |-> root_hash, balances |-> balances, tx |-> tx]

to_bits(st) ==
  LEBits(st.height, HeightBits)
    \o st.root_hash
    \o Flatten([k \in 1..NumAccounts |-> LEBits(st.balances[k], BalanceBits)])
    \o (IF st.tx = NoTx THEN <<>> ELSE Transaction_to_bits(st.tx))

ZeroHash == [k \in 1..HashBits |-> FALSE]

base_payload == to_bits(ChainState(0, ZeroHash, [k \in 1..NumAccounts |-> 0], NoTx))

\* ------------------------------------------------------------------ CTransaction
convert_to_num(bits) == LEInt(bits)

NoCTx == [present |-> FALSE, from |-> 0, to |-> 0, amount |-> 0]

PadTo(bits, n) == [k \in 1..n |-> IF k <= Len(bits) THEN bits[k] ELSE FALSE]

\* CTransaction::from_bits without its check of the length
CTransaction_from_bits_anylen(bits) ==
  LET b      == PadTo(bits, TxBits)
      from   == convert_to_num(SubSeq(b, 1, IdxBits))
      to     == convert_to_num(SubSeq(b, IdxBits + 1, 2 * IdxBits))
      amount == bits_to_num(SubSeq(b, 2 * IdxBits + 1, TxBits))
  IN  IF from >= IdxLimit \/ to >= IdxLimit
      THEN [err |-> "Violation", tx |-> NoCTx, wires |-> 0, constraints |-> <<>>]
      ELSE [err |-> "Ok",
            tx |-> [present |-> TRUE, from |-> from, to |-> to, amount |-> amount.value],
            wires |-> 1, constraints |-> <<amount.satisfied>>]

\* err, the transaction, the wires allocated and whether each emitted
\* constraint is satisfied
CTransaction_from_bits(bits) ==
  IF Len(bits) # TxBits
  THEN [err |-> "Unsatisfiable", tx |-> NoCTx, wires |-> 0, constraints |-> <<>>]
  ELSE LET from   == convert_to_num(SubSeq(bits, 1, IdxBits))
           to     == convert_to_num(SubSeq(bits, IdxBits + 1, 2 * IdxBits))
           amount == bits_to_num(SubSeq(bits, 2 * IdxBits + 1, TxBits))
       IN  IF from >= IdxLimit \/ to >= IdxLimit
           THEN [err |-> "Violation", tx |-> NoCTx, wires |-> 0, constraints |-> <<>>]
           ELSE [err |-> "Ok",
                 tx |-> [present |-> TRUE, from |-> from, to |-> to, amount |-> amount.value],
                 wires |-> 1, constraints |-> <<amount.satisfied>>]

\* ------------------------------------------------------------------ CChainState
BalancesStart == HeightBits + HashBits
BalancesEnd == HeightBits + HashBits + BalancesBits
\* &bits[(8 * 32 + 8 * 8 * 16)..]
TxStart == HashBits + BalancesBits

NoCState ==
  [height |-> 0, root_hash |-> <<>>, balances |-> <<>>, balances_bits |-> <<>>, tx |-> NoCTx]

CChainState_from_bits(bits) ==
  IF Len(bits) < BalancesEnd
  THEN [err |-> "panic: slice", st |-> NoCState, wires |-> 0, constraints |-> <<>>]
  ELSE LET height        == bits_to_num(SubSeq(bits, 1, HeightBits))
           root_hash     == SubSeq(bits, HeightBits + 1, HeightBits + HashBits)
           balances_bits == [k \in 1..NumAccounts |->
                               SubSeq(bits, BalancesStart + (k - 1) * BalanceBits + 1,
                                      BalancesStart + k * BalanceBits)]
           balances      == [k \in 1..NumAccounts |-> bits_to_num(balances_bits[k])]
           tx_bits       == SubSeq(bits, TxStart + 1, Len(bits))
           ctx           == IF tx_bits = <<>>
                            THEN [err |-> "Ok", tx |-> NoCTx, wires |-> 0, constraints |-> <<>>]
                            ELSE CTransaction_from_bits(tx_bits)
           own           == <<height.satisfied>>
                              \o [k \in 1..NumAccounts |-> balances[k].satisfied]
       IN  [err |-> ctx.err,
            st  |-> [height |-> height.value, root_hash |-> root_hash,
                     balances |-> [k \in 1..NumAccounts |-> balances[k].value],
                     balances_bits |-> balances_bits, tx |-> ctx.tx],
            wires |-> 1 + NumAccounts + ctx.wires,
            constraints |-> own \o ctx.constraints]

hash_leaf(left, right) == halo_sha256(left \o right)

RECURSIVE MerkleUp(_)
MerkleUp(level) ==
  IF Len(level) <= 1 THEN level
  ELSE MerkleUp([k \in 1..(Len(level) \div 2) |-> hash_leaf(level[2 * k - 1], level[2 * k])])

merkle_root_hash(balances_bits) ==
  MerkleUp([k \in 1..Len(balances_bits) |-> halo_sha256(balances_bits[k])])[1]

\* ------------------------------------------------------------------ ReachCircuit
HeightConstraintNoStep(prev, curr) == FMod(curr.height - prev.height) = 0

\* curr_state.height.lc() - prev_state.height.lc() - CS::ONE
HeightConstraint(prev, curr) == FMod(curr.height - prev.height - 1) = 0

MintConstraints(prev, curr, tx) ==
  <<FMod(curr.balances[tx.to + 1] - prev.balances[tx.to + 1] - tx.amount) = 0>>

TransferConstraintsNoDebit(prev, curr, tx) ==
  <<FMod(curr.balances[tx.to + 1] - prev.balances[tx.to + 1] - tx.amount) = 0>>

TransferConstraints(prev, curr, tx) ==
  <<FMod(prev.balances[tx.from + 1] - curr.balances[tx.from + 1] - tx.amount) = 0,
    FMod(curr.balances[tx.to + 1] - prev.balances[tx.to + 1] - tx.amount) = 0>>

NoResult == [status |-> "none", wires |-> 0, constraints |-> <<>>]

ReachCircuit_synthesize(old, new) ==
  LET p == CChainState_from_bits(old)
  IN  IF p.err # "Ok"
      THEN [status |-> p.err, wires |-> IF p.err = "panic: slice" THEN 0 ELSE p.wires,
            constraints |-> p.constraints]
      ELSE
  LET c == CChainState_from_bits(new)
  IN  IF c.err # "Ok"
      THEN [status |-> c.err, wires |-> p.wires + c.wires,
            constraints |-> p.constraints \o c.constraints]
      ELSE IF ~c.st.tx.present
      THEN [status |-> "Unsatisfiable", wires |-> p.wires + c.wires,
            constraints |-> p.constraints \o c.constraints]
      ELSE
  LET prev_state == p.st
      curr_state == c.st
      tx         == curr_state.tx
      delta      == IF tx.from = tx.to
                    THEN MintConstraints(prev_state, curr_state, tx)
                    ELSE TransferConstraints(prev_state, curr_state, tx)
  IN  [status |-> "Ok", wires |-> p.wires + c.wires,
       constraints |->
         p.constraints \o c.constraints
           \o <<HeightConstraint(prev_state, curr_state),
                enforce_equality(prev_state.root_hash,
                                 merkle_root_hash(prev_state.balances_bits)),
                enforce_equality(curr_state.root_hash,
                                 merkle_root_hash(curr_state.balances_bits))>>
           \o delta]

\* A transition is accepted when synthesis returns Ok and every constraint it
\* emitted is satisfied.
Accepts(r) == r.status = "Ok" /\ \A k \in 1..Len(r.constraints) : r.constraints[k]

\* ------------------------------------------------------------------ state
VARIABLES
  build,       \* "debug" or "release": whether integer overflow panics or wraps
  params,      \* what trust_setup returned
  witness,     \* the witness handed to generate_proof
  proof,       \* what generate_proof returned
  call,        \* the arguments of the last verify
  verdict,     \* what verify returned
  old_payload, \* the payload of the ledger's latest state
  new_payload, \* the payload proposed as its successor
  result,      \* what ReachCircuit::synthesize made of (old_payload, new_payload)
  chain        \* the heights of the states accepted so far, the first state's first

pipelineVars == <<build, params, witness, proof, call, verdict>>
ledgerVars == <<old_payload, new_payload, result, chain>>
vars == <<build, params, witness, proof, call, verdict,
          old_payload, new_payload, result, chain>>

NoCall == [vk |-> "none", proof |-> "none", hash |-> "none"]

\* ------------------------------------------------------------------ inputs
AmountSet == {Amount(1, 1), Amount(2, 2), Amount(3, 2), Amount(MaxU128, 1)}

SeqsUpTo(S, n) == UNION {[1..k -> S] : k \in 0..n}

SplitsOf(s) == {[inputs |-> SubSeq(s, 1, j), outputs |-> SubSeq(s, j + 1, Len(s))] : j \in 0..Len(s)}

Witnesses == UNION {SplitsOf(s) : s \in SeqsUpTo(AmountSet, MaxAmounts)}

Shapes == {<<i, o>> \in (0..MaxAmounts) \X (0..MaxAmounts) : i + o <= MaxAmounts}

NoWitness == [inputs |-> <<>>, outputs |-> <<>>]

\* The witnesses tried against parameters of the given sizes: every witness
\* of those sizes, and some of other sizes.
WitnessesFor(sizes) ==
  {w \in Witnesses : <<Len(w.inputs), Len(w.outputs)>> = sizes}
    \cup UNION {SplitsOf(s) : s \in SeqsUpTo({Amount(1, 1)}, MaxAmounts)}

HashKinds == {"recomputed", "reversed", "empty", "doubled"}

\* The hash bytes a verifier may pass for a witness.
HashBytes(kind, w) ==
  LET h == reference_hash(w.inputs \o w.outputs)
  IN  CASE kind = "recomputed" -> h
        [] kind = "reversed"   -> reference_hash(Reverse(w.inputs \o w.outputs))
        [] kind = "empty"      -> <<>>
        [] OTHER               -> h \o h

KeyBytes(kind, p) == IF kind = "valid" THEN Bytes(p) ELSE Garbage(p)
ProofBytes(kind, prf) == IF kind = "valid" THEN Bytes(prf) ELSE Garbage(prf)

\* No ledger circuit is synthesized by the Groth16 pipelines.
LedgerIdle ==
  /\ old_payload = <<>>
  /\ new_payload = <<>>
  /\ result = NoResult
  /\ chain = <<>>

\* The pipeline at rest.
PipelineIdle ==
  /\ build = "release"
  /\ params = NoParams
  /\ witness = NoWitness
  /\ proof = NoProof
  /\ call = NoCall
  /\ verdict = "none"

\* ------------------------------------------------------------------ Mixer pipeline
MixerInit ==
  /\ build \in {"debug", "release"}
  /\ params = NoParams
  /\ witness = NoWitness
  /\ proof = NoProof
  /\ call = NoCall
  /\ verdict = "none"
  /\ LedgerIdle

TrustSetup ==
  /\ params.status = "none"
  /\ \E sh \in Shapes : params' = trust_setup(sh[1], sh[2], build)
  /\ UNCHANGED <<build, witness, proof, call, verdict>>
  /\ UNCHANGED ledgerVars

GenerateProof ==
  /\ params.status = "ok"
  /\ proof.status = "none"
  /\ \E w \in WitnessesFor(params.sizes), fits \in BOOLEAN :
       /\ witness' = w
       /\ proof' = generate_proof(w, params, build, fits)
  /\ UNCHANGED <<build, params, call, verdict>>
  /\ UNCHANGED ledgerVars

Verify ==
  /\ proof.status # "none"
  /\ verdict = "none"
  /\ \E vk \in {"valid", "garbage"}, pk \in {"valid", "garbage"}, hk \in HashKinds :
       /\ pk = "valid" => proof.status = "ok"
       /\ call' = [vk |-> vk, proof |-> pk, hash |-> hk]
       /\ verdict' = verify(KeyBytes(vk, params), ProofBytes(pk, proof), HashBytes(hk, witness))
  /\ UNCHANGED <<build, params, witness, proof>>
  /\ UNCHANGED ledgerVars

MixerNext == TrustSetup \/ GenerateProof \/ Verify

MixerSpec == MixerInit /\ [][MixerNext]_vars

\* ------------------------------------------------------------------ Twin
hash_amount(amount, nonce) == sha256(convert_to_bits(amount) \o convert_to_bits(nonce))

TwinShape == [commits |-> 2, folds |-> <<>>, packed |-> 2 * DigestBits]

Twin_synthesize(w) ==
  IF w.input_amount < w.output_amount
  THEN [status |-> "Unsatisfiable", digest |-> <<>>, public |-> <<>>, shape |-> TwinShape]
  ELSE LET input_output_hashes ==
             hash_amount(w.input_amount, w.input_nonce)
               \o hash_amount(w.output_amount, w.output_nonce)
       IN  [status |-> "Ok", digest |-> input_output_hashes,
            public |-> pack_into_inputs(input_output_hashes), shape |-> TwinShape]

TwinWitness(ia, in, oa, on) ==
  [input_amount |-> ia, input_nonce |-> in, output_amount |-> oa, output_nonce |-> on]

twin_trust_setup ==
  LET c == Twin_synthesize(TwinWitness(0, 0, 0, 0))
  IN  IF c.status = "Ok"
      THEN [status |-> "ok", shape |-> c.shape, ninputs |-> Len(c.public), sizes |-> <<1, 1>>]
      ELSE [status |-> "panic: setup", shape |-> c.shape, ninputs |-> 0, sizes |-> <<1, 1>>]

twin_generate_proof(w, p) ==
  LET c == Twin_synthesize(w)
  IN  IF c.status # "Ok"
      THEN [status |-> "panic: create proof: Unsatisfiable", stmt |-> <<>>,
            shape |-> c.shape, digest |-> <<>>]
      ELSE [status |-> "ok", stmt |-> c.public, shape |-> c.shape, digest |-> c.digest]

twin_verify(vk_bytes, proof_bytes, from_hash, to_hash) ==
  LET combined_hash == from_hash \o to_hash
  IN  IF ~vk_bytes.decodes THEN "panic: read verifying key"
      ELSE LET hash_bits == bytes_to_bits(combined_hash)
               inputs    == compute_multipacking(hash_bits)
           IN  IF ~proof_bytes.decodes THEN "panic: read proof"
               ELSE LET r == verify_proof(vk_bytes.val, proof_bytes.val, inputs)
                    IN  IF r = "Err" THEN "panic: verify proof" ELSE r

TwinAmounts == {0, 2, 3, MaxU128}
TwinNonces == {10, 20}
TwinWitnesses ==
  {TwinWitness(ia, in, oa, on) : ia \in TwinAmounts, in \in TwinNonces,
                                 oa \in TwinAmounts, on \in TwinNonces}

TwinHashKinds == {"recomputed", "swapped", "empty"}

\* tests::basic_test: input_hash and output_hash
TwinFromHash(w) == Sha256_digest(combine(w.input_amount, w.input_nonce))
TwinToHash(w) == Sha256_digest(combine(w.output_amount, w.output_nonce))

TwinInput(kind, w) ==
  CASE kind = "recomputed" -> [from_hash |-> TwinFromHash(w), to_hash |-> TwinToHash(w)]
    [] kind = "swapped"    -> [from_hash |-> TwinToHash(w), to_hash |-> TwinFromHash(w)]
    [] OTHER               -> [from_hash |-> <<>>, to_hash |-> TwinToHash(w)]

TwinInit ==
  /\ build \in {"debug", "release"}
  /\ params = NoParams
  /\ witness = TwinWitness(0, 0, 0, 0)
  /\ proof = NoProof
  /\ call = NoCall
  /\ verdict = "none"
  /\ LedgerIdle

TwinTrustSetup ==
  /\ params.status = "none"
  /\ params' = twin_trust_setup
  /\ UNCHANGED <<build, witness, proof, call, verdict>>
  /\ UNCHANGED ledgerVars

TwinGenerateProof ==
  /\ params.status = "ok"
  /\ proof.status = "none"
  /\ \E w \in TwinWitnesses :
       /\ witness' = w
       /\ proof' = twin_generate_proof(w, params)
  /\ UNCHANGED <<build, params, call, verdict>>
  /\ UNCHANGED ledgerVars

TwinVerify ==
  /\ proof.status # "none"
  /\ verdict = "none"
  /\ \E vk \in {"valid", "garbage"}, pk \in {"valid", "garbage"}, hk \in TwinHashKinds :
       /\ pk = "valid" => proof.status = "ok"
       /\ call' = [vk |-> vk, proof |-> pk, hash |-> hk]
       /\ verdict' = twin_verify(KeyBytes(vk, params), ProofBytes(pk, proof),
                                 TwinInput(hk, witness).from_hash, TwinInput(hk, witness).to_hash)
  /\ UNCHANGED <<build, params, witness, proof>>
  /\ UNCHANGED ledgerVars

TwinNext == TwinTrustSetup \/ TwinGenerateProof \/ TwinVerify

TwinSpec == TwinInit /\ [][TwinNext]_vars

\* ------------------------------------------------------------------ ledger inputs
\* the largest number of transitions appended to a chain
MaxSteps == 2

MaxHeight == 2 ^ HeightBits - 1
MaxBalance == 2 ^ BalanceBits - 1

\* The fields of a payload as integers, read at the offsets of
\* ChainState::to_bits (height, root, balances) and, for the transaction, at
\* the offset CChainState::from_bits reads it from.
HeightOf(payload) == LEInt(SubSeq(payload, 1, HeightBits))

BalanceOf(payload, j) ==
  LEInt(SubSeq(payload, BalancesStart + j * BalanceBits + 1, BalancesStart + (j + 1) * BalanceBits))

BalancesOf(payload) == [k \in 1..NumAccounts |-> BalanceOf(payload, k - 1)]

BalanceBitsOf(payload) ==
  [k \in 1..NumAccounts |->
     SubSeq(payload, BalancesStart + (k - 1) * BalanceBits + 1, BalancesStart + k * BalanceBits)]

RootOf(payload) == SubSeq(payload, HeightBits + 1, HeightBits + HashBits)

TxFromOf(payload) == LEInt(SubSeq(payload, TxStart + 1, TxStart + IdxBits))
TxToOf(payload) == LEInt(SubSeq(payload, TxStart + IdxBits + 1, TxStart + 2 * IdxBits))
TxAmountOf(payload) == LEInt(SubSeq(payload, TxStart + 2 * IdxBits + 1, TxStart + TxBits))

\* A payload: ChainState::to_bits of the state ("to_bits"), or the same bits
\* with the transaction placed where from_bits reads it ("packed"); its root
\* is the Merkle root of the balances it carries ("merkle"), that root moved by
\* the field's modulus ("shifted"), or zero.
RawPayload(h, root, bal, tx, layout) ==
  IF layout = "to_bits"
  THEN to_bits(ChainState(h, root, bal, tx))
  ELSE SubSeq(to_bits(ChainState(h, root, bal, NoTx)), 1, TxStart)
         \o (IF tx = NoTx THEN <<>> ELSE Transaction_to_bits(tx))

\* The digest whose little-endian value is the given digest's plus or minus
\* the field's modulus, whichever stays within HashBits bits.
ShiftRoot(root) ==
  LET v == LEInt(root)
  IN  LEBits(IF v + FieldModulus < 2 ^ HashBits THEN v + FieldModulus ELSE v - FieldModulus,
             HashBits)

PayloadOf(h, bal, tx, layout, rootKind) ==
  LET raw == RawPayload(h, ZeroHash, bal, tx, layout)
  IN  IF rootKind = "zero" \/ Len(raw) < BalancesEnd
      THEN raw
      ELSE LET root == merkle_root_hash(BalanceBitsOf(raw))
           IN  RawPayload(h, IF rootKind = "shifted" THEN ShiftRoot(root) ELSE root,
                          bal, tx, layout)

TwoBalances(b0, b1) == [k \in 1..NumAccounts |-> IF k = 1 THEN b0 ELSE IF k = 2 THEN b1 ELSE 0]

InitialPayloads ==
  {base_payload}
    \cup {PayloadOf(0, TwoBalances(1, 0), tx, "to_bits", rk) :
            tx \in {NoTx, Transaction(0, 0, 0)}, rk \in {"merkle", "zero"}}
    \cup {PayloadOf(h, TwoBalances(b0, b1), Transaction(0, 0, 0), "packed", rk) :
            h \in {0, MaxHeight}, b0 \in {1, MaxBalance}, b1 \in {0, MaxBalance},
            rk \in {"merkle", "zero"}}

\* How a proposal is laid out and which root it claims.
Layouts ==
  {<<"to_bits", "merkle">>, <<"packed", "merkle">>, <<"packed", "zero">>,
   <<"packed", "shifted">>}

NewTxs ==
  {NoTx} \cup {Transaction(ft[1], ft[2], a) :
                 ft \in {<<0, 0>>, <<0, 1>>, <<1, 0>>, <<IdxLimit, 0>>, <<0, IdxLimit>>},
                 a \in {1, 2}}

\* The balances proposed after `bal`: tx.amount taken from tx.from (debit),
\* added to tx.to (credit), and account 2 changed besides (touch).
Wrap(x) == ((x % 2 ^ BalanceBits) + 2 ^ BalanceBits) % 2 ^ BalanceBits

Proposed(bal, tx, debit, credit, touch) ==
  LET b1 == IF debit /\ tx # NoTx /\ tx.from < NumAccounts
            THEN [bal EXCEPT ![tx.from + 1] = Wrap(@ - tx.amount)] ELSE bal
      b2 == IF credit /\ tx # NoTx /\ tx.to < NumAccounts
            THEN [b1 EXCEPT ![tx.to + 1] = Wrap(@ + tx.amount)] ELSE b1
  IN  IF touch THEN [b2 EXCEPT ![3] = Wrap(@ + 1)] ELSE b2

\* ------------------------------------------------------------------ ledger
LedgerInit ==
  /\ PipelineIdle
  /\ old_payload \in InitialPayloads
  /\ new_payload = <<>>
  /\ result = NoResult
  /\ chain = <<HeightOf(old_payload)>>

\* One call of ReachCircuit::synthesize on the latest state and a proposal.
\* Proposals that leave out the debit or the credit, or touch a third account,
\* are tried in the layout from_bits reads and with the recomputed root.
Synthesize ==
  /\ result.status = "none"
  /\ Len(chain) <= MaxSteps
  /\ \E up \in BOOLEAN, tx \in NewTxs, debit \in BOOLEAN, credit \in BOOLEAN,
        touch \in BOOLEAN, lr \in Layouts :
       LET h   == IF up THEN (HeightOf(old_payload) + 1) % 2 ^ HeightBits
                  ELSE HeightOf(old_payload)
           bal == Proposed(BalancesOf(old_payload), tx, debit, credit, touch)
           new == PayloadOf(h, bal, tx, lr[1], lr[2])
       IN  /\ lr # <<"packed", "merkle">>
                => (credit /\ ~touch /\ (debit <=> tx.from # tx.to))
           /\ new_payload' = new
           /\ result' = ReachCircuit_synthesize(old_payload, new)
  /\ UNCHANGED <<old_payload, chain>>
  /\ UNCHANGED pipelineVars

\* The recursion: an accepted state is the previous state of the next
\* transition.
Extend ==
  /\ Accepts(result)
  /\ Len(chain) <= MaxSteps
  /\ old_payload' = new_payload
  /\ chain' = Append(chain, HeightOf(new_payload))
  /\ new_payload' = <<>>
  /\ result' = NoResult
  /\ UNCHANGED pipelineVars

LedgerNext == Synthesize \/ Extend

LedgerSpec == LedgerInit /\ [][LedgerNext]_vars

\* ------------------------------------------------------------------ claims: Mixer
HonestCall == [vk |-> "valid", proof |-> "valid", hash |-> "recomputed"]

MixerAmounts == witness.inputs \o witness.outputs

CountsMatchShape == <<Len(witness.inputs), Len(witness.outputs)>> = params.sizes

ReferenceInputs(amounts) == compute_multipacking(bytes_to_bits(reference_hash(amounts)))

\* C1: every witness with sum(inputs) >= sum(outputs) whose counts match the
\* shape of the setup yields a proof whose public input is the reference fold
\* over the commitments, and verify with the recomputed hash returns true.
C1_ProofVerifiesAgainstReference ==
  (proof.status # "none" /\ CountsMatchShape
     /\ TrueSum(witness.inputs) >= TrueSum(witness.outputs))
  => /\ proof.status = "ok"
     /\ proof.stmt = ReferenceInputs(MixerAmounts)
     /\ (call = HonestCall => verdict = "true")

\* The same statement for the witnesses whose sums stay within a u128: the
\* circuit's digest is the reference fold (not one of the claims).
DigestIsReferenceWithinRange ==
  (proof.status # "none" /\ CountsMatchShape
     /\ TrueSum(witness.inputs) >= TrueSum(witness.outputs)
     /\ TrueSum(witness.inputs) <= MaxU128)
  => /\ proof.status = "ok"
     /\ proof.stmt = ReferenceInputs(MixerAmounts)
     /\ (call = HonestCall => verdict = "true")

\* C2: for every witness whose true sum of inputs is below its true sum of
\* outputs proof generation fails and no proof is produced, also when a sum
\* exceeds the u128 range.  (The failure is Unsatisfiable, or the overflow
\* panic of a debug build; either way there must be no proof.)
C2_NonConservingFails ==
  (proof.status # "none" /\ CountsMatchShape
     /\ TrueSum(witness.inputs) < TrueSum(witness.outputs))
  => proof.status # "ok"

\* C4: trust_setup returns Params for every shape, and the digest the
\* placeholder circuit exposes is one digest wide (for the empty shape, which
\* folds nothing, only the first is asked here).
C4_SetupReturnsParams ==
  params.status # "none"
  => /\ params.status = "ok"
     /\ params.sizes # <<0, 0>> => params.shape.packed = DigestBits

\* C5: verify returns a boolean for any key bytes, proof bytes and hash bytes.
C5_VerifyReturnsBoolean == verdict \in {"none", "true", "false"}

Perms(n) == {f \in [1..n -> 1..n] : \A a, b \in 1..n : f[a] = f[b] => a = b}

Reorder(s, f) == [k \in 1..Len(s) |-> s[f[k]]]

\* C6: the hash chain is order-sensitive: every ordering of the witness's
\* commitments other than the one proved yields another digest and other
\* packed public inputs, and the proof does not verify against them.
C6_ChainOrderSensitive ==
  (proof.status = "ok" /\ verdict = "none" /\ CountsMatchShape)
  => \A t \in {Reorder(MixerAmounts, f) : f \in Perms(Len(MixerAmounts))} \ {MixerAmounts} :
       LET h == recursive_hash(t)
       IN  /\ h # proof.digest
           /\ pack_into_inputs(h) # proof.stmt
           /\ verify(Bytes(params), Bytes(proof), reference_hash(t)) # "true"

C6_Witness ==
  /\ proof.status = "ok"
  /\ verdict = "none"
  /\ CountsMatchShape
  /\ Len(MixerAmounts) = 3
  /\ MixerAmounts[1] # MixerAmounts[2]
  /\ MixerAmounts[2] # MixerAmounts[3]

\* C15: the Mixer's public digest depends only on inputs ++ outputs and not on
\* where the boundary between them lies: every witness with the same
\* concatenated sequence that passes the conservation check yields the same
\* digest, the same public inputs and the same circuit structure as the one
\* proved.
C15_DigestIgnoresSplit ==
  (proof.status = "ok" /\ verdict = "none")
  => \A w \in SplitsOf(MixerAmounts) :
       LET c == Mixer_synthesize(w.inputs, w.outputs, build)
       IN  c.status = "Ok"
           => /\ c.digest = proof.digest
              /\ c.public = proof.stmt
              /\ c.shape = proof.shape
              /\ LET q == trust_setup(Len(w.inputs), Len(w.outputs), build)
                 IN  (CountsMatchShape /\ q.status = "ok")
                     => (q.shape = params.shape /\ q.ninputs = params.ninputs)

C15_Witness ==
  /\ proof.status = "ok"
  /\ verdict = "none"
  /\ Len(witness.inputs) = 2
  /\ Len(witness.outputs) = 1
  /\ witness.inputs[1] # witness.inputs[2]
  /\ witness.inputs[2] # witness.outputs[1]
  /\ Mixer_synthesize(MixerAmounts, <<>>, build).status = "Ok"
  /\ Mixer_synthesize(MixerAmounts, <<>>, build).public = proof.stmt

\* ------------------------------------------------------------------ claims: ledger
OneBalance(i, a) == [k \in 1..NumAccounts |-> IF k = i + 1 THEN a ELSE 0]

\* The state after minting a to account i at genesis, as a ChainState.
MintedState(i, a) ==
  ChainState(1,
             merkle_root_hash([k \in 1..NumAccounts |-> LEBits(OneBalance(i, a)[k], BalanceBits)]),
             OneBalance(i, a), Transaction(i, i, a))

\* C7: from the genesis payload, a mint {from: i, to: i, amount: a} to the
\* state of height 1 with balances[i] = a, all other balances zero and the
\* recomputed Merkle root is accepted.
C7_GenesisMintAccepted ==
  \A i \in 0..(NumAccounts - 1), a \in 1..MaxBalance :
    (result.status # "none" /\ old_payload = base_payload
       /\ new_payload = to_bits(MintedState(i, a)))
    => Accepts(result)

\* C8: in every accepted mint, balances[tx.to] grows by tx.amount and every
\* other balance is unchanged.
C8_MintFrame ==
  (Accepts(result) /\ TxFromOf(new_payload) = TxToOf(new_payload))
  => /\ BalanceOf(new_payload, TxToOf(new_payload))
          = BalanceOf(old_payload, TxToOf(new_payload)) + TxAmountOf(new_payload)
     /\ \A j \in 0..(NumAccounts - 1) :
          j # TxToOf(new_payload) => BalanceOf(new_payload, j) = BalanceOf(old_payload, j)

\* C9: in every accepted transfer the two balance equations hold over the
\* integers: the amount does not exceed the sender's previous balance, and the
\* receiver's new balance is the integer sum, within the balance width.
C9_TransferOverIntegers ==
  (Accepts(result) /\ TxFromOf(new_payload) # TxToOf(new_payload))
  => LET from   == TxFromOf(new_payload)
         to     == TxToOf(new_payload)
         amount == TxAmountOf(new_payload)
     IN  /\ amount <= BalanceOf(old_payload, from)
         /\ BalanceOf(new_payload, from) = BalanceOf(old_payload, from) - amount
         /\ BalanceOf(new_payload, to) = BalanceOf(old_payload, to) + amount
         /\ BalanceOf(old_payload, to) + amount <= MaxBalance

C9_Witness ==
  /\ Accepts(result)
  /\ TxFromOf(new_payload) # TxToOf(new_payload)
  /\ TxAmountOf(new_payload) > 0
  /\ BalanceOf(old_payload, TxToOf(new_payload)) > 0

\* C10: every accepted transition raises the height by exactly one, as
\* integers, so the k-th state of a chain of accepted transitions has the
\* first state's height plus k (k itself from genesis): heights never repeat
\* or decrease.
C10_HeightSteps ==
  /\ Accepts(result) => HeightOf(new_payload) = HeightOf(old_payload) + 1
  /\ \A k \in 1..Len(chain) : chain[k] = chain[1] + (k - 1)

C10_Witness == Len(chain) >= 3 /\ chain[1] = 0

\* C11: in every accepted transition the root_hash of the previous state and
\* of the current state are, bit for bit, the Merkle root recomputed from that
\* state's balances: the zero-constraint of enforce_equality is satisfied only
\* by identical sequences.
C11_RootsAreMerkleRoots ==
  Accepts(result)
  => /\ RootOf(old_payload) = merkle_root_hash(BalanceBitsOf(old_payload))
     /\ RootOf(new_payload) = merkle_root_hash(BalanceBitsOf(new_payload))

\* A payload that is ChainState::to_bits of a state without a transaction.
CarriesNoTx(payload) ==
  /\ Len(payload) >= BalancesEnd
  /\ payload = to_bits(ChainState(HeightOf(payload), RootOf(payload), BalancesOf(payload), NoTx))

\* C12: synthesize returns Unsatisfiable whenever the current state's payload
\* carries no transaction and never accepts such a transition; every accepted
\* transition carries exactly one transaction.
C12_TransactionRequired ==
  /\ (result.status # "none" /\ CarriesNoTx(new_payload))
       => (result.status = "Unsatisfiable" /\ ~Accepts(result))
  /\ Accepts(result)
       => /\ CChainState_from_bits(new_payload).st.tx.present
          /\ Len(new_payload) = TxStart + TxBits

C12_Witness ==
  /\ CarriesNoTx(new_payload)
  /\ CChainState_from_bits(old_payload).err = "Ok"
  /\ result.status = "Unsatisfiable"

\* The transaction of a payload as ChainState::to_bits lays it out: the TxBits
\* bits that follow the balances.
TxAfterBalances(payload) ==
  IF Len(payload) = BalancesEnd THEN NoTx
  ELSE Transaction(LEInt(SubSeq(payload, BalancesEnd + 1, BalancesEnd + IdxBits)),
                   LEInt(SubSeq(payload, BalancesEnd + IdxBits + 1, BalancesEnd + 2 * IdxBits)),
                   LEInt(SubSeq(payload, BalancesEnd + 2 * IdxBits + 1, BalancesEnd + TxBits)))

\* The ChainState a payload is the to_bits of.
StateOfBits(payload) ==
  ChainState(HeightOf(payload), RootOf(payload), BalancesOf(payload), TxAfterBalances(payload))

IsToBitsImage(payload) ==
  /\ Len(payload) \in {BalancesEnd, BalancesEnd + TxBits}
  /\ payload = to_bits(StateOfBits(payload))

IndexOutOfRange(tx) == tx # NoTx /\ (tx.from >= IdxLimit \/ tx.to >= IdxLimit)

\* C13: a payload whose transaction has from >= 8 or to >= 8 is rejected with
\* Violation, and at the moment Violation is returned no wire has been
\* allocated and no zero-constraint emitted for that state: the circuit holds
\* what the previous state put there and nothing more.
C13_ViolationBeforeEmission ==
  LET p == CChainState_from_bits(old_payload)
  IN  /\ (result.status # "none" /\ p.err = "Ok" /\ IsToBitsImage(new_payload)
           /\ IndexOutOfRange(TxAfterBalances(new_payload)))
          => result.status = "Violation"
      /\ result.status = "Violation"
          => /\ result.wires = p.wires
             /\ Len(result.constraints) = Len(p.constraints)

\* C14: CChainState::from_bits is the inverse of ChainState::to_bits: from the
\* bits of a state (with account indices in range) it recovers the same
\* height, root_hash, balances and transaction, None for a state without one.
C14_FromBitsInvertsToBits ==
  (result.status # "none" /\ IsToBitsImage(new_payload)
     /\ ~IndexOutOfRange(TxAfterBalances(new_payload)))
  => LET c == CChainState_from_bits(new_payload)
         s == StateOfBits(new_payload)
     IN  /\ c.err = "Ok"
         /\ c.st.height = s.height
         /\ c.st.root_hash = s.root_hash
         /\ c.st.balances = s.balances
         /\ c.st.tx.present = (s.tx # NoTx)
         /\ s.tx # NoTx => /\ c.st.tx.from = s.tx.from
                           /\ c.st.tx.to = s.tx.to
                           /\ c.st.tx.amount = s.tx.amount

\* ------------------------------------------------------------------ claims: Twin
\* C3: for input_amount >= output_amount the Twin's public statement is
\* commit(input) followed by commit(output), unfolded, equal to the bits verify
\* builds from from_hash followed by to_hash, and verify with the two SHA-256
\* digests returns true.
C3_TwinStatement ==
  (proof.status # "none" /\ witness.input_amount >= witness.output_amount)
  => /\ proof.status = "ok"
     /\ proof.digest = bytes_to_bits(TwinFromHash(witness) \o TwinToHash(witness))
     /\ proof.stmt = compute_multipacking(bytes_to_bits(TwinFromHash(witness) \o TwinToHash(witness)))
     /\ (call = HonestCall => verdict = "true")

C3_Witness ==
  /\ proof.status = "ok"
  /\ witness.input_amount > witness.output_amount
  /\ witness.output_amount > 0
  /\ call = HonestCall
  /\ verdict = "true"

====
